---------------------------- MODULE Spec2Model ----------------------------
(***************************************************************************)
(* Model of scripts/make_amsterdam_locations.py: the country-wide exporter *)
(* that joins the CBS neighbourhood feed with the Wikipedia municipality   *)
(* table and writes out/locations/<province>/<municipality>/LOCATIONS.js.  *)
(*                                                                         *)
(* A Python str is modelled as a sequence of characters.  An ASCII         *)
(* character is the one-letter string holding it; the non-ASCII           *)
(* characters the script names or needs are written by code point:        *)
(* "U+00E2" (a with circumflex), "U+0302" (combining circumflex),          *)
(* "U+00A0" (no-break space), "U+00AD" (soft hyphen) and "U+200B"          *)
(* (zero-width space).  String operations are computed character by       *)
(* character, as CPython computes them.                                    *)
(***************************************************************************)
EXTENDS Integers, Sequences, FiniteSets, TLC

(***************************************************************************)
(* Characters and the str operations the script uses.                      *)
(***************************************************************************)
Ascii ==
  << " ", "!", "\"", "#", "$", "%", "&", "'", "(", ")", "*", "+", ",", "-", ".", "/",
     "0", "1", "2", "3", "4", "5", "6", "7", "8", "9", ":", ";", "<", "=", ">", "?",
     "@", "A", "B", "C", "D", "E", "F", "G", "H", "I", "J", "K", "L", "M", "N", "O",
     "P", "Q", "R", "S", "T", "U", "V", "W", "X", "Y", "Z", "[", "\\", "]", "^", "_",
     "U+0060", "a", "b", "c", "d", "e", "f", "g", "h", "i", "j", "k", "l", "m", "n", "o",
     "p", "q", "r", "s", "t", "u", "v", "w", "x", "y", "z", "{", "|", "}", "~" >>

Chars == {Ascii[i] : i \in DOMAIN Ascii} \cup {"\t", "\n", "U+00A0", "U+00AD", "U+00E2", "U+0302", "U+200B"}

\* ord(c): the code point of a character.
OrdTable ==
  [c \in Chars |->
     CASE c = "\t" -> 9
       [] c = "\n" -> 10
       [] c = "U+00A0" -> 160
       [] c = "U+00AD" -> 173
       [] c = "U+00E2" -> 226
       [] c = "U+200B" -> 8203
       [] c = "U+0302" -> 770
       [] OTHER -> 31 + (CHOOSE i \in DOMAIN Ascii : Ascii[i] = c)]

Ord(c) == OrdTable[c]

Chr(n) == Ascii[n - 31]

IsAscii(c) == Ord(c) < 128

IsUpper(c) == Ord(c) >= Ord("A") /\ Ord(c) <= Ord("Z")

IsLowerOrDigit(c) ==
  \/ Ord(c) >= Ord("a") /\ Ord(c) <= Ord("z")
  \/ Ord(c) >= Ord("0") /\ Ord(c) <= Ord("9")

\* str.isspace for the characters of the model.
IsSpace(c) == c \in {" ", "\t", "\n", "U+00A0"}

\* Lower-casing of one character (A-Z only change, within the model's characters).
LowerChar(c) == IF IsUpper(c) THEN Chr(Ord(c) + (Ord("a") - Ord("A"))) ELSE c

\* str.lower / str.casefold: they agree on the model's characters.
Lower(s) == [i \in DOMAIN s |-> LowerChar(s[i])]

Casefold(s) == Lower(s)

\* a < b on str: lexicographic by code point.
RECURSIVE StrLess(_, _)
StrLess(a, b) ==
  IF b = <<>> THEN FALSE
  ELSE IF a = <<>> THEN TRUE
  ELSE IF a[1] = b[1] THEN StrLess(Tail(a), Tail(b))
  ELSE Ord(a[1]) < Ord(b[1])

StartsWith(s, prefix) ==
  Len(s) >= Len(prefix) /\ SubSeq(s, 1, Len(prefix)) = prefix

\* sub in s
Contains(s, sub) ==
  \E i \in 0 .. (Len(s) - Len(sub)) : SubSeq(s, i + 1, i + Len(sub)) = sub

\* s.replace(old, new): every non-overlapping occurrence, left to right (old non-empty).
RECURSIVE Replace(_, _, _)
Replace(s, old, new) ==
  IF Len(s) < Len(old) THEN s
  ELSE IF SubSeq(s, 1, Len(old)) = old
       THEN new \o Replace(SubSeq(s, Len(old) + 1, Len(s)), old, new)
       ELSE <<s[1]>> \o Replace(Tail(s), old, new)

RECURSIVE LStrip(_, _)
LStrip(s, drop) ==
  IF s # <<>> /\ s[1] \in drop THEN LStrip(Tail(s), drop) ELSE s

RECURSIVE RStrip(_, _)
RStrip(s, drop) ==
  IF s # <<>> /\ s[Len(s)] \in drop THEN RStrip(SubSeq(s, 1, Len(s) - 1), drop) ELSE s

\* s.strip(): leading and trailing whitespace removed.
Strip(s) == RStrip(LStrip(s, {c \in Chars : IsSpace(c)}), {c \in Chars : IsSpace(c)})

\* sep.join(parts)
RECURSIVE Join(_, _)
Join(sep, parts) ==
  IF parts = <<>> THEN <<>>
  ELSE IF Len(parts) = 1 THEN parts[1]
  ELSE parts[1] \o sep \o Join(sep, Tail(parts))

RECURSIVE Concat(_)
Concat(parts) == IF parts = <<>> THEN <<>> ELSE parts[1] \o Concat(Tail(parts))

(***************************************************************************)
(* sorted(): a stable sort.  SortedByKey sorts a sequence of <<key, value>> *)
(* pairs by key and returns the values; equal keys keep their input order. *)
(***************************************************************************)
RECURSIVE InsertByKey(_, _)
InsertByKey(pair, sorted) ==
  IF sorted = <<>> THEN <<pair>>
  ELSE IF StrLess(pair[1], sorted[1][1]) THEN <<pair>> \o sorted
  ELSE <<sorted[1]>> \o InsertByKey(pair, Tail(sorted))

RECURSIVE SortPairs(_)
SortPairs(pairs) ==
  IF pairs = <<>> THEN <<>>
  ELSE InsertByKey(pairs[Len(pairs)], SortPairs(SubSeq(pairs, 1, Len(pairs) - 1)))

SortedByKey(pairs) ==
  LET sorted == SortPairs(pairs) IN [i \in DOMAIN pairs |-> sorted[i][2]]

\* sorted(seq) on a list of str.
Sorted(seq) == SortedByKey([i \in DOMAIN seq |-> <<seq[i], seq[i]>>])

\* sorted(seq, key=str.casefold)
SortedCasefold(seq) == SortedByKey([i \in DOMAIN seq |-> <<Casefold(seq[i]), seq[i]>>])

(***************************************************************************)
(* Iteration order of a Python set of str.  CPython's str hash is seeded   *)
(* per process (PYTHONHASHSEED is random unless set), so the order in which *)
(* a set yields its elements is fixed within one run and differs between   *)
(* runs.  hashseed stands for the seed of the run; SetIterOrder(S, seed)   *)
(* is the permutation of S the seed selects, so that the seeds             *)
(* 0 .. NumHashSeeds-1 enumerate different iteration orders.               *)
(***************************************************************************)
NumHashSeeds == 6

HashSeeds == 0 .. (NumHashSeeds - 1)

RECURSIVE Factorial(_)
Factorial(n) == IF n <= 1 THEN 1 ELSE n * Factorial(n - 1)

RECURSIVE AscendingSeq(_)
AscendingSeq(S) ==
  IF S = {} THEN <<>>
  ELSE LET least == CHOOSE x \in S : \A y \in S : x = y \/ StrLess(x, y)
       IN <<least>> \o AscendingSeq(S \ {least})

RemoveAt(seq, i) == SubSeq(seq, 1, i - 1) \o SubSeq(seq, i + 1, Len(seq))

RECURSIVE NthPermutation(_, _)
NthPermutation(seq, k) ==
  IF seq = <<>> THEN <<>>
  ELSE LET f == Factorial(Len(seq) - 1)
           i == ((k \div f) % Len(seq)) + 1
       IN <<seq[i]>> \o NthPermutation(RemoveAt(seq, i), k % f)

SetIterOrder(S, seed) == NthPermutation(AscendingSeq(S), seed % Factorial(Cardinality(S)))

(***************************************************************************)
(* slugify and json.dumps                                                  *)
(***************************************************************************)
\* unicodedata.normalize("NFKD", c) for one character of the model.
NFKDChar(c) ==
  CASE c = "U+00E2" -> <<"a", "U+0302">>
    [] c = "U+00A0" -> <<" ">>
    [] OTHER -> <<c>>

NFKD(s) == Concat([i \in DOMAIN s |-> NFKDChar(s[i])])

\* .encode("ascii", "ignore").decode("ascii")
AsciiIgnore(s) == SelectSeq(s, IsAscii)

RECURSIVE DropWhileNotAlnum(_)
DropWhileNotAlnum(s) ==
  IF s # <<>> /\ ~IsLowerOrDigit(s[1]) THEN DropWhileNotAlnum(Tail(s)) ELSE s

\* re.sub(r"[^a-z0-9]+", "-", s)
RECURSIVE SubNonAlnum(_)
SubNonAlnum(s) ==
  IF s = <<>> THEN <<>>
  ELSE IF IsLowerOrDigit(s[1]) THEN <<s[1]>> \o SubNonAlnum(Tail(s))
  ELSE <<"-">> \o SubNonAlnum(DropWhileNotAlnum(s))

\* re.sub(r"-+", "-", s)
RECURSIVE SubHyphenRuns(_)
SubHyphenRuns(s) ==
  IF s = <<>> THEN <<>>
  ELSE IF s[1] = "-" THEN <<"-">> \o SubHyphenRuns(LStrip(s, {"-"}))
  ELSE <<s[1]>> \o SubHyphenRuns(Tail(s))

slugify(value) ==
  LET norm == NFKD(value)
      ascii_only == Lower(AsciiIgnore(norm))
      replaced == Replace(ascii_only, <<"&">>, <<" ", "a", "n", "d", " ">>)
      hyphened == SubHyphenRuns(SubNonAlnum(replaced))
      stripped == RStrip(LStrip(hyphened, {"-"}), {"-"})
  IN IF stripped = <<>> THEN <<"i", "t", "e", "m">> ELSE stripped

HexDigits == <<"0", "1", "2", "3", "4", "5", "6", "7", "8", "9", "a", "b", "c", "d", "e", "f">>

Hex4(n) ==
  << HexDigits[((n \div 4096) % 16) + 1], HexDigits[((n \div 256) % 16) + 1],
     HexDigits[((n \div 16) % 16) + 1], HexDigits[(n % 16) + 1] >>

\* json.dumps of one character of a str (ensure_ascii is the default).
JsonChar(c) ==
  CASE c = "\"" -> <<"\\", "\"">>
    [] c = "\\" -> <<"\\", "\\">>
    [] c = "\n" -> <<"\\", "n">>
    [] c = "\t" -> <<"\\", "t">>
    [] OTHER -> IF IsAscii(c) THEN <<c>> ELSE <<"\\", "u">> \o Hex4(Ord(c))

JsonDumps(s) == <<"\"">> \o Concat([i \in DOMAIN s |-> JsonChar(s[i])]) \o <<"\"">>

(***************************************************************************)
(* The static tables of the script.                                        *)
(***************************************************************************)
PROVINCE_NAME_REMAP ==
  (<<"N", "o", "o", "r", "d", "-", "B", "r", "a", "b", "a", "n", "t">> :> <<"N", "o", "r", "t", "h", " ", "B", "r", "a", "b", "a", "n", "t">>) @@
  (<<"N", "o", "o", "r", "d", " ", "B", "r", "a", "b", "a", "n", "t">> :> <<"N", "o", "r", "t", "h", " ", "B", "r", "a", "b", "a", "n", "t">>) @@
  (<<"N", "o", "o", "r", "d", "-", "H", "o", "l", "l", "a", "n", "d">> :> <<"N", "o", "r", "t", "h", " ", "H", "o", "l", "l", "a", "n", "d">>) @@
  (<<"N", "o", "o", "r", "d", " ", "H", "o", "l", "l", "a", "n", "d">> :> <<"N", "o", "r", "t", "h", " ", "H", "o", "l", "l", "a", "n", "d">>) @@
  (<<"Z", "u", "i", "d", "-", "H", "o", "l", "l", "a", "n", "d">> :> <<"S", "o", "u", "t", "h", " ", "H", "o", "l", "l", "a", "n", "d">>) @@
  (<<"Z", "u", "i", "d", " ", "H", "o", "l", "l", "a", "n", "d">> :> <<"S", "o", "u", "t", "h", " ", "H", "o", "l", "l", "a", "n", "d">>) @@
  (<<"F", "r", "y", "s", "l", "U+00E2", "n">> :> <<"F", "r", "i", "e", "s", "l", "a", "n", "d">>) @@
  (<<"F", "r", "i", "e", "s", "l", "a", "n", "d">> :> <<"F", "r", "i", "e", "s", "l", "a", "n", "d">>) @@
  (<<"C", "a", "r", "i", "b", "i", "s", "c", "h", " ", "N", "e", "d", "e", "r", "l", "a", "n", "d">> :> <<"C", "a", "r", "i", "b", "b", "e", "a", "n", " ", "N", "e", "t", "h", "e", "r", "l", "a", "n", "d", "s">>)

MUNICIPALITY_OVERRIDES ==
  (<<"A", "p", "p", "i", "n", "g", "e", "d", "a", "m">> :> <<"G", "r", "o", "n", "i", "n", "g", "e", "n">>) @@
  (<<"B", "e", "e", "m", "s", "t", "e", "r">> :> <<"N", "o", "r", "t", "h", " ", "H", "o", "l", "l", "a", "n", "d">>) @@
  (<<"B", "e", "r", "g", "e", "n", " ", "(", "L", ".", ")">> :> <<"L", "i", "m", "b", "u", "r", "g">>) @@
  (<<"B", "e", "r", "g", "e", "n", " ", "(", "N", "H", ".", ")">> :> <<"N", "o", "r", "t", "h", " ", "H", "o", "l", "l", "a", "n", "d">>) @@
  (<<"B", "o", "x", "m", "e", "e", "r">> :> <<"N", "o", "r", "t", "h", " ", "B", "r", "a", "b", "a", "n", "t">>) @@
  (<<"B", "r", "i", "e", "l", "l", "e">> :> <<"S", "o", "u", "t", "h", " ", "H", "o", "l", "l", "a", "n", "d">>) @@
  (<<"C", "u", "i", "j", "k">> :> <<"N", "o", "r", "t", "h", " ", "B", "r", "a", "b", "a", "n", "t">>) @@
  (<<"D", "a", "n", "t", "u", "m", "a", "d", "i", "e", "l">> :> <<"F", "r", "i", "e", "s", "l", "a", "n", "d">>) @@
  (<<"D", "e", " ", "F", "r", "y", "s", "k", "e", " ", "M", "a", "r", "r", "e", "n">> :> <<"F", "r", "i", "e", "s", "l", "a", "n", "d">>) @@
  (<<"D", "e", "l", "f", "z", "i", "j", "l">> :> <<"G", "r", "o", "n", "i", "n", "g", "e", "n">>) @@
  (<<"H", "a", "a", "r", "e", "n">> :> <<"N", "o", "r", "t", "h", " ", "B", "r", "a", "b", "a", "n", "t">>) @@
  (<<"G", "r", "a", "v", "e">> :> <<"N", "o", "r", "t", "h", " ", "B", "r", "a", "b", "a", "n", "t">>) @@
  (<<"H", "e", "e", "r", "h", "u", "g", "o", "w", "a", "a", "r", "d">> :> <<"N", "o", "r", "t", "h", " ", "H", "o", "l", "l", "a", "n", "d">>) @@
  (<<"H", "e", "l", "l", "e", "v", "o", "e", "t", "s", "l", "u", "i", "s">> :> <<"S", "o", "u", "t", "h", " ", "H", "o", "l", "l", "a", "n", "d">>) @@
  (<<"L", "a", "n", "d", "e", "r", "d">> :> <<"N", "o", "r", "t", "h", " ", "B", "r", "a", "b", "a", "n", "t">>) @@
  (<<"L", "a", "n", "g", "e", "d", "i", "j", "k">> :> <<"N", "o", "r", "t", "h", " ", "H", "o", "l", "l", "a", "n", "d">>) @@
  (<<"L", "o", "p", "p", "e", "r", "s", "u", "m">> :> <<"G", "r", "o", "n", "i", "n", "g", "e", "n">>) @@
  (<<"M", "i", "l", "l", " ", "e", "n", " ", "S", "i", "n", "t", " ", "H", "u", "b", "e", "r", "t">> :> <<"N", "o", "r", "t", "h", " ", "B", "r", "a", "b", "a", "n", "t">>) @@
  (<<"N", "u", "e", "n", "e", "n", ",", " ", "G", "e", "r", "w", "e", "n", " ", "e", "n", " ", "N", "e", "d", "e", "r", "w", "e", "t", "t", "e", "n">> :> <<"N", "o", "r", "t", "h", " ", "B", "r", "a", "b", "a", "n", "t">>) @@
  (<<"S", "i", "n", "t", " ", "A", "n", "t", "h", "o", "n", "i", "s">> :> <<"N", "o", "r", "t", "h", " ", "B", "r", "a", "b", "a", "n", "t">>) @@
  (<<"T", "y", "t", "s", "j", "e", "r", "k", "s", "t", "e", "r", "a", "d", "i", "e", "l">> :> <<"F", "r", "i", "e", "s", "l", "a", "n", "d">>) @@
  (<<"U", "d", "e", "n">> :> <<"N", "o", "r", "t", "h", " ", "B", "r", "a", "b", "a", "n", "t">>) @@
  (<<"W", "e", "e", "s", "p">> :> <<"N", "o", "r", "t", "h", " ", "H", "o", "l", "l", "a", "n", "d">>) @@
  (<<"W", "e", "s", "t", "v", "o", "o", "r", "n", "e">> :> <<"S", "o", "u", "t", "h", " ", "H", "o", "l", "l", "a", "n", "d">>) @@
  (<<"'", "s", "-", "G", "r", "a", "v", "e", "n", "h", "a", "g", "e">> :> <<"S", "o", "u", "t", "h", " ", "H", "o", "l", "l", "a", "n", "d">>) @@
  (<<"B", "e", "r", "g", "e", "n", " ", "(", "N", "H", ")">> :> <<"N", "o", "r", "t", "h", " ", "H", "o", "l", "l", "a", "n", "d">>)

(***************************************************************************)
(* dict helpers.  A dict is a function; d.get(k) is a sequence holding the *)
(* value, or the empty sequence for None.                                  *)
(***************************************************************************)
EmptyDict == <<>>

DictGet(d, k) == IF k \in DOMAIN d THEN <<d[k]>> ELSE <<>>

\* d[k] = v
DictSet(d, k, v) == (k :> v) @@ d

\* d.update(other)
DictUpdate(d, other) == other @@ d

\* `not x` for x the result of d.get(k): None or the empty string.
Falsy(opt) == opt = <<>> \/ opt[1] = <<>>

\* dict.get(key, default)
GetOrDefault(d, k, default) == IF k \in DOMAIN d THEN d[k] ELSE default

(***************************************************************************)
(* _normalize_cell                                                         *)
(***************************************************************************)
\* re.sub(r"\[[^\]]*\]", "", text): every "[...]" with no "]" inside is removed.
RECURSIVE SubBracketed(_)
SubBracketed(text) ==
  IF text = <<>> THEN <<>>
  ELSE IF text[1] = "[" /\ \E j \in 2 .. Len(text) : text[j] = "]"
       THEN LET close == CHOOSE j \in 2 .. Len(text) :
                           text[j] = "]" /\ \A k \in 2 .. (j - 1) : text[k] # "]"
            IN SubBracketed(SubSeq(text, close + 1, Len(text)))
       ELSE <<text[1]>> \o SubBracketed(Tail(text))

\* re.sub(r"\s+", " ", text)
RECURSIVE SubSpaceRuns(_)
SubSpaceRuns(text) ==
  IF text = <<>> THEN <<>>
  ELSE IF IsSpace(text[1])
       THEN <<" ">> \o SubSpaceRuns(LStrip(text, {c \in Chars : IsSpace(c)}))
       ELSE <<text[1]>> \o SubSpaceRuns(Tail(text))

_normalize_cell(text) ==
  LET t1 == Replace(text, <<"U+00A0">>, <<" ">>)
      t2 == Replace(t1, <<"U+00AD">>, <<>>)
      t3 == Replace(t2, <<"U+200B">>, <<>>)
  IN Strip(SubSpaceRuns(SubBracketed(t3)))

(***************************************************************************)
(* load_municipality_provinces.  The reference page is given as            *)
(* parser.tables, the wikitables WikiTableParser extracted: a list of      *)
(* tables, each a list of rows, each a list of normalized cells.  The      *)
(* result is [exit |-> TRUE, message |-> m] for raise SystemExit(m), or    *)
(* [exit |-> FALSE, mapping |-> d].                                        *)
(***************************************************************************)
\* any("Gemeente" in cell for cell in row)
HasGemeente(row) == \E i \in DOMAIN row : Contains(row[i], <<"G", "e", "m", "e", "e", "n", "t", "e">>)

HasHeaderRow(table) == \E r \in DOMAIN table : HasGemeente(table[r])

\* Index of the first row of the table that holds "Gemeente" (header_row).
HeaderRowIndex(table) ==
  CHOOSE r \in DOMAIN table :
    HasGemeente(table[r]) /\ \A q \in 1 .. (r - 1) : ~HasGemeente(table[q])

\* next(idx for idx, cell in enumerate(header) if word in cell); 0 for StopIteration.
FirstColumn(header, word) ==
  IF \E i \in DOMAIN header : Contains(header[i], word)
  THEN CHOOSE i \in DOMAIN header :
         Contains(header[i], word) /\ \A j \in 1 .. (i - 1) : ~Contains(header[j], word)
  ELSE 0

Max(a, b) == IF a >= b THEN a ELSE b

\* The loop over target_table, after its first n rows.
RECURSIVE ReferenceMapping(_, _, _, _, _)
ReferenceMapping(target_table, header_idx, municipality_idx, province_idx, n) ==
  IF n = 0 THEN EmptyDict
  ELSE LET mapping == ReferenceMapping(target_table, header_idx, municipality_idx,
                                       province_idx, n - 1)
           row == target_table[n]
       IN IF n = header_idx THEN mapping
          ELSE IF HasGemeente(row) THEN mapping
          ELSE IF Len(row) < Max(municipality_idx, province_idx) THEN mapping
          ELSE LET municipality == Strip(row[municipality_idx])
                   province == Strip(row[province_idx])
               IN IF municipality = <<>> \/ province = <<>> THEN mapping
                  ELSE DictSet(mapping, municipality,
                               GetOrDefault(PROVINCE_NAME_REMAP, province, province))

\* The overrides fill in only the names the reference table lacks.
ApplyOverridesAsDefaults(mapping) == DictUpdate(MUNICIPALITY_OVERRIDES, mapping)

\* mapping.update(MUNICIPALITY_OVERRIDES)
ApplyOverrides(mapping) == DictUpdate(mapping, MUNICIPALITY_OVERRIDES)

load_municipality_provinces(parser_tables) ==
  IF ~\E t \in DOMAIN parser_tables : HasHeaderRow(parser_tables[t])
  THEN [exit |-> TRUE,
        message |-> <<"C", "o", "u", "l", "d", " ", "n", "o", "t", " ", "l", "o", "c", "a", "t", "e", " ", "m", "u", "n", "i", "c", "i", "p", "a", "l", "i", "t", "y", " ", "t", "a", "b", "l", "e", " ", "o", "n", " ", "W", "i", "k", "i", "p", "e", "d", "i", "a", " ", "p", "a", "g", "e">>]
  ELSE LET t == CHOOSE t \in DOMAIN parser_tables :
                  /\ HasHeaderRow(parser_tables[t])
                  /\ \A u \in 1 .. (t - 1) : ~HasHeaderRow(parser_tables[u])
           target_table == parser_tables[t]
           header_idx == HeaderRowIndex(target_table)
           header == [i \in DOMAIN target_table[header_idx] |->
                        _normalize_cell(target_table[header_idx][i])]
           municipality_idx == FirstColumn(header, <<"G", "e", "m", "e", "e", "n", "t", "e">>)
           province_idx == FirstColumn(header, <<"P", "r", "o", "v", "i", "n">>)
       IN IF municipality_idx = 0 \/ province_idx = 0
          THEN [exit |-> TRUE,
                message |-> <<"C", "o", "u", "l", "d", " ", "n", "o", "t", " ", "d", "e", "t", "e", "r", "m", "i", "n", "e", " ", "h", "e", "a", "d", "e", "r", " ", "c", "o", "l", "u", "m", "n", "s", " ", "i", "n", " ", "m", "u", "n", "i", "c", "i", "p", "a", "l", "i", "t", "y", " ", "t", "a", "b", "l", "e">>]
          ELSE [exit |-> FALSE,
                mapping |-> ApplyOverrides(
                              ReferenceMapping(target_table, header_idx, municipality_idx,
                                               province_idx, Len(target_table)))]

(***************************************************************************)
(* build_municipality_index.  A feed item is a record [Key, Title,         *)
(* Municipality] of str; a missing or null field is the empty str, as      *)
(* (item.get(f) or "") makes it.                                           *)
(***************************************************************************)
\* muni_names after the first n items of the feed.
RECURSIVE MuniNames(_, _)
MuniNames(wijken_data, n) ==
  IF n = 0 THEN EmptyDict
  ELSE LET muni_names == MuniNames(wijken_data, n - 1)
           key == Strip(wijken_data[n].Key)
           title == Strip(wijken_data[n].Title)
       IN IF StartsWith(key, <<"G", "M">>) THEN DictSet(muni_names, key, title)
          ELSE muni_names

\* neighbourhoods (a defaultdict(set)) after the first n items of the feed.
RECURSIVE Neighbourhoods(_, _)
Neighbourhoods(wijken_data, n) ==
  IF n = 0 THEN EmptyDict
  ELSE LET neighbourhoods == Neighbourhoods(wijken_data, n - 1)
           key == Strip(wijken_data[n].Key)
           title == Strip(wijken_data[n].Title)
           municipality_code == Strip(wijken_data[n].Municipality)
       IN IF StartsWith(key, <<"G", "M">>) THEN neighbourhoods
          ELSE IF StartsWith(key, <<"B", "U">>) /\ municipality_code # <<>>
               THEN IF title # <<>>
                    THEN DictSet(neighbourhoods, municipality_code,
                                 GetOrDefault(neighbourhoods, municipality_code, {})
                                   \cup {title})
                    ELSE neighbourhoods
               ELSE neighbourhoods

\* The set literal of lines 253-257.
FallbackVariants(name) ==
  { Replace(name, <<" ", "(", "'", "s", "-", "G", "r", "a", "v", "e", "n", "h", "a", "g", "e", ")">>, <<>>),
    Replace(name, <<"G", "e", "m", "e", "e", "n", "t", "e", " ">>, <<>>),
    Replace(name, <<"-">>, <<" ">>) }

\* next((d.get(var) for var in fallback_variants if var in d), None)
FirstVariantHit(fallback_variants, municipality_to_province, seed) ==
  LET hits == SelectSeq(SetIterOrder(fallback_variants, seed),
                        LAMBDA var : var \in DOMAIN municipality_to_province)
  IN IF hits = <<>> THEN <<>> ELSE DictGet(municipality_to_province, hits[1])

\* The province looked up for one name (lines 250-261): <<p>>, or <<>> for None.
ResolveProvince(name, municipality_to_province, seed) ==
  LET province == DictGet(municipality_to_province, name)
  IN IF Falsy(province)
     THEN FirstVariantHit(FallbackVariants(name), municipality_to_province, seed)
     ELSE province

\* neighbourhoods=sorted(neighbourhoods.get(code, set()), key=str.casefold)
SortedNeighbourhoods(neighbourhoods, code, seed) ==
  SortedCasefold(SetIterOrder(GetOrDefault(neighbourhoods, code, {}), seed))

\* sorted(muni_names.items()): the codes are the keys of a dict, hence distinct.
SortedCodes(muni_names) == Sorted(AscendingSeq(DOMAIN muni_names))

\* result (the Municipality objects in insertion order) after the first n codes.
RECURSIVE ResultAfter(_, _, _, _, _, _)
ResultAfter(codes, muni_names, neighbourhoods, municipality_to_province, seed, n) ==
  IF n = 0 THEN <<>>
  ELSE LET result == ResultAfter(codes, muni_names, neighbourhoods,
                                 municipality_to_province, seed, n - 1)
           code == codes[n]
           name == muni_names[code]
           province == ResolveProvince(name, municipality_to_province, seed)
       IN IF Falsy(province) THEN result
          ELSE Append(result,
                      [code |-> code, name |-> name, province |-> province[1],
                       neighbourhoods |-> SortedNeighbourhoods(neighbourhoods, code, seed)])

\* The loop skips an unresolved name without recording it.
UnresolvedNotRecorded(codes, muni_names, municipality_to_province, seed, n) == <<>>

\* unresolved after the first n codes.
RECURSIVE UnresolvedAfter(_, _, _, _, _)
UnresolvedAfter(codes, muni_names, municipality_to_province, seed, n) ==
  IF n = 0 THEN <<>>
  ELSE LET unresolved == UnresolvedAfter(codes, muni_names, municipality_to_province,
                                         seed, n - 1)
           name == muni_names[codes[n]]
       IN IF Falsy(ResolveProvince(name, municipality_to_province, seed))
          THEN Append(unresolved, name)
          ELSE unresolved

\* The SystemExit message of lines 273-277.
UnresolvedMessage(unresolved) ==
  <<"M", "i", "s", "s", "i", "n", "g", " ", "p", "r", "o", "v", "i", "n", "c", "e", " ", "m", "a", "p", "p", "i", "n", "g", " ", "f", "o", "r", ":", " ">> \o Join(<<",", " ">>, Sorted(unresolved))

build_municipality_index(wijken_data, parser_tables, seed) ==
  LET muni_names == MuniNames(wijken_data, Len(wijken_data))
      neighbourhoods == Neighbourhoods(wijken_data, Len(wijken_data))
      loaded == load_municipality_provinces(parser_tables)
  IN IF loaded.exit THEN [exit |-> TRUE, message |-> loaded.message, result |-> <<>>]
     ELSE LET codes == SortedCodes(muni_names)
              unresolved == UnresolvedAfter(codes, muni_names, loaded.mapping, seed,
                                            Len(codes))
          IN IF unresolved # <<>>
             THEN [exit |-> TRUE, message |-> UnresolvedMessage(unresolved),
                   result |-> <<>>]
             ELSE [exit |-> FALSE, message |-> <<>>,
                   result |-> ResultAfter(codes, muni_names, neighbourhoods,
                                          loaded.mapping, seed, Len(codes))]

(***************************************************************************)
(* write_locations.  A file of the output tree is named by its path below  *)
(* root, <<province_slug, municipality_slug, "LOCATIONS.js">>, and holds   *)
(* the text written to it.                                                 *)
(***************************************************************************)
\* f"{neighbourhood}, {municipality.name}, {municipality.province}, Netherlands"
Location(neighbourhood, municipality) ==
  neighbourhood \o <<",", " ">> \o municipality.name \o <<",", " ">> \o municipality.province
    \o <<",", " ", "N", "e", "t", "h", "e", "r", "l", "a", "n", "d", "s">>

\* The line written for the idx-th neighbourhood (idx counted from 1).
LocationLine(municipality, idx) ==
  <<" ", " ">> \o JsonDumps(Location(municipality.neighbourhoods[idx], municipality))
    \o (IF idx < Len(municipality.neighbourhoods) THEN <<",">> ELSE <<>>) \o <<"\n">>

LocationsText(municipality) ==
  <<"L", "O", "C", "A", "T", "I", "O", "N", "S", " ", "=", " ", "[", "\n">>
    \o Concat([idx \in DOMAIN municipality.neighbourhoods |->
                 LocationLine(municipality, idx)])
    \o <<"]", "\n">>

OutFile(municipality) ==
  <<slugify(municipality.province), slugify(municipality.name), <<"L", "O", "C", "A", "T", "I", "O", "N", "S", ".", "j", "s">>>>

(***************************************************************************)
(* The source snapshots a run can be given: the rows of the CBS feed       *)
(* (wijken_payload["value"]) and the wikitables of the reference page.     *)
(* Each family below lists candidate feed items and candidate table rows;  *)
(* a snapshot takes at most MaxItems of the items and at most MaxRows of   *)
(* the rows, in the listed order.  Key is the entity key of the OData      *)
(* feed, so no two region-level (GM) items of a feed share a Key.  A cell  *)
(* of a wikitable is as _normalize_cell left it, and the parser keeps no   *)
(* empty row and no empty table.  Both downloads succeed: a run whose      *)
(* download fails ends before it touches anything modelled here.           *)
(***************************************************************************)
MaxItems == 4

MaxRows == 2

RECURSIVE PickAscending(_, _)
PickAscending(list, indices) ==
  IF indices = {} THEN <<>>
  ELSE LET least == CHOOSE i \in indices : \A j \in indices : i <= j
       IN <<list[least]>> \o PickAscending(list, indices \ {least})

\* The subsequences of list that hold at most max elements.
SubSeqs(list, max) ==
  { PickAscending(list, indices) :
      indices \in {S \in SUBSET (DOMAIN list) : Cardinality(S) <= max} }

Item(key, title, municipality) ==
  [Key |-> key, Title |-> title, Municipality |-> municipality]

IsMunicipalityItem(item) == StartsWith(Strip(item.Key), <<"G", "M">>)

DistinctMunicipalityKeys(feed) ==
  \A i, j \in DOMAIN feed :
    (i # j /\ IsMunicipalityItem(feed[i]) /\ IsMunicipalityItem(feed[j]))
      => Strip(feed[i].Key) # Strip(feed[j].Key)

Feeds(items) == {feed \in SubSeqs(items, MaxItems) : DistinctMunicipalityKeys(feed)}

HeaderRow == <<<<"G", "e", "m", "e", "e", "n", "t", "e">>, <<"P", "r", "o", "v", "i", "n", "c", "i", "e">>>>

\* One wikitable: the header row followed by the chosen rows.
ReferencePages(rows) == { << <<HeaderRow>> \o chosen >> : chosen \in SubSeqs(rows, MaxRows) }

\* Names that reach a province only through a fallback variant.
FallbackItems ==
  << Item(<<"G", "M", "0", "0", "0", "1">>, <<"G", "e", "m", "e", "e", "n", "t", "e", " ", "O", "o", "s", "t", "-", "G", "e", "l", "r", "e">>, <<"G", "M", "0", "0", "0", "1">>),
     Item(<<"G", "M", "0", "0", "0", "1">>, <<"D", "e", "n", " ", "H", "a", "a", "g", " ", "(", "'", "s", "-", "G", "r", "a", "v", "e", "n", "h", "a", "g", "e", ")">>, <<"G", "M", "0", "0", "0", "1">>),
     Item(<<"B", "U", "0", "0", "0", "1", "0", "0", "0", "0">>, <<"C", "e", "n", "t", "r", "u", "m">>, <<"G", "M", "0", "0", "0", "1">>) >>

\* The row "Gemeente Oost Gelre" holds "Gemeente" and is passed over as a header.
FallbackRows ==
  << <<<<"O", "o", "s", "t", "-", "G", "e", "l", "r", "e">>, <<"G", "e", "l", "d", "e", "r", "l", "a", "n", "d">>>>,
     <<<<"G", "e", "m", "e", "e", "n", "t", "e", " ", "O", "o", "s", "t", " ", "G", "e", "l", "r", "e">>, <<"N", "o", "o", "r", "d", "-", "H", "o", "l", "l", "a", "n", "d">>>>,
     <<<<"O", "o", "s", "t", "-", "G", "e", "l", "r", "e">>, <<"F", "r", "y", "s", "l", "a", "n">>>>,
     <<<<"D", "e", "n", " ", "H", "a", "a", "g">>, <<"Z", "u", "i", "d", " ", "H", "o", "l", "l", "a", "n", "d">>>>,
     <<<<"D", "e", "n", " ", "H", "a", "a", "g", " ", "(", "'", "s", " ", "G", "r", "a", "v", "e", "n", "h", "a", "g", "e", ")">>, <<"U", "t", "r", "e", "c", "h", "t">>>> >>

\* A name no table knows, and a name of the override table.
OverrideItems ==
  << Item(<<"G", "M", "0", "0", "0", "1">>, <<"A", "t", "l", "a", "n", "t", "i", "s">>, <<"G", "M", "0", "0", "0", "1">>),
     Item(<<"G", "M", "0", "0", "0", "1">>, <<"A", "p", "p", "i", "n", "g", "e", "d", "a", "m">>, <<"G", "M", "0", "0", "0", "1">>),
     Item(<<"G", "M", "0", "0", "0", "2">>, <<"A", "t", "l", "a", "n", "t", "i", "s">>, <<"G", "M", "0", "0", "0", "2">>),
     Item(<<"G", "M", "0", "0", "0", "2">>, <<"A", "p", "p", "i", "n", "g", "e", "d", "a", "m">>, <<"G", "M", "0", "0", "0", "2">>),
     Item(<<"B", "U", "0", "0", "0", "1", "0", "0", "0", "0">>, <<"C", "e", "n", "t", "r", "u", "m">>, <<"G", "M", "0", "0", "0", "1">>) >>

OverrideRows ==
  << <<<<"A", "p", "p", "i", "n", "g", "e", "d", "a", "m">>, <<"D", "r", "e", "n", "t", "h", "e">>>>,
     <<<<"A", "p", "p", "i", "n", "g", "e", "d", "a", "m">>, <<"Z", "u", "i", "d", "-", "H", "o", "l", "l", "a", "n", "d">>>> >>

\* Two municipalities of the override table and their neighbourhoods.
NeighbourhoodItems ==
  << Item(<<"G", "M", "0", "0", "0", "1">>, <<"B", "e", "r", "g", "e", "n", " ", "(", "N", "H", ".", ")">>, <<"G", "M", "0", "0", "0", "1">>),
     Item(<<"G", "M", "0", "0", "0", "2">>, <<"B", "e", "r", "g", "e", "n", " ", "(", "N", "H", ")">>, <<"G", "M", "0", "0", "0", "2">>),
     Item(<<"B", "U", "0", "0", "0", "1", "0", "0", "0", "0">>, <<"C", "e", "n", "t", "r", "u", "m">>, <<"G", "M", "0", "0", "0", "1">>),
     Item(<<"B", "U", "0", "0", "0", "1", "0", "0", "0", "1">>, <<"c", "e", "n", "t", "r", "u", "m">>, <<"G", "M", "0", "0", "0", "1">>),
     Item(<<"B", "U", "0", "0", "0", "2", "0", "0", "0", "0">>, <<"C", "e", "n", "t", "r", "u", "m">>, <<"G", "M", "0", "0", "0", "2">>) >>

\* Rows the feed loop passes over, beside one municipality and its neighbourhood.
SkippedItems ==
  << Item(<<"G", "M", "0", "0", "0", "1">>, <<"T", "e", "x", "e", "l">>, <<"G", "M", "0", "0", "0", "1">>),
     Item(<<" ", "G", "M", "0", "0", "0", "2">>, <<" ", " ">>, <<"G", "M", "0", "0", "0", "2">>),
     Item(<<"B", "U", "0", "0", "0", "1", "0", "0", "0", "0">>, <<" ", "O", "o", "s", "t", " ">>, <<"G", "M", "0", "0", "0", "1", " ">>),
     Item(<<"B", "U", "0", "0", "0", "1", "0", "0", "0", "1">>, <<>>, <<"G", "M", "0", "0", "0", "1">>),
     Item(<<"B", "U", "0", "0", "0", "1", "0", "0", "0", "2">>, <<"W", "e", "s", "t">>, <<>>),
     Item(<<"B", "U", "0", "0", "0", "9", "0", "0", "0", "0">>, <<"W", "e", "s", "t">>, <<"G", "M", "0", "0", "0", "9">>),
     Item(<<"W", "K", "0", "0", "0", "1", "0", "0">>, <<"W", "i", "j", "k", " ", "0", "0">>, <<"G", "M", "0", "0", "0", "1">>) >>

TexelPage == << <<HeaderRow, <<<<"T", "e", "x", "e", "l">>, <<"N", "o", "o", "r", "d", "-", "H", "o", "l", "l", "a", "n", "d">>>> >> >>

\* Reference pages whose table is missing, lacks a column, or holds rows the
\* loop of load_municipality_provinces skips.
IrregularPages ==
  { <<>>,
    << << <<<<"G", "e", "m", "e", "e", "n", "t", "e">>, <<"I", "n", "w", "o", "n", "e", "r", "s">>>>, <<<<"T", "e", "x", "e", "l">>, <<"1", "3", ".", "0", "0", "0">>>> >> >>,
    << << <<<<"P", "r", "o", "v", "i", "n", "c", "i", "e">>, <<"H", "o", "o", "f", "d", "s", "t", "a", "d">>>>, <<<<"D", "r", "e", "n", "t", "h", "e">>, <<"A", "s", "s", "e", "n">>>> >>,
       << <<<<"T", "e", "x", "e", "l">>, <<"D", "r", "e", "n", "t", "h", "e">>>>,
          <<<<"N", "r">>, <<"G", "e", "m", "e", "e", "n", "t", "e">>, <<"P", "r", "o", "v", "i", "n", "c", "i", "e">>>>,
          <<<<"1">>, <<"T", "e", "x", "e", "l">>, <<"F", "r", "y", "s", "l", "U+00E2", "n">>>>,
          <<<<"N", "r">>, <<"G", "e", "m", "e", "e", "n", "t", "e">>, <<"P", "r", "o", "v", "i", "n", "c", "i", "e">>>>,
          <<<<"2">>, <<"U", "r", "k">>>>,
          <<<<"3">>, <<"U", "r", "k">>, <<>>>> >> >> }

TexelFeed ==
  << Item(<<"G", "M", "0", "0", "0", "1">>, <<"T", "e", "x", "e", "l">>, <<"G", "M", "0", "0", "0", "1">>), Item(<<"B", "U", "0", "0", "0", "1", "0", "0", "0", "0">>, <<"O", "o", "s", "t">>, <<"G", "M", "0", "0", "0", "1">>) >>

Snapshot(feed, page) == [wijken_data |-> feed, parser_tables |-> page]

Snapshots ==
  {Snapshot(feed, page) : feed \in Feeds(FallbackItems), page \in ReferencePages(FallbackRows)}
    \cup {Snapshot(feed, page) : feed \in Feeds(OverrideItems), page \in ReferencePages(OverrideRows)}
    \cup {Snapshot(feed, page) : feed \in Feeds(NeighbourhoodItems), page \in ReferencePages(<<>>)}
    \cup {Snapshot(feed, TexelPage) : feed \in Feeds(SkippedItems)}
    \cup {Snapshot(TexelFeed, page) : page \in IrregularPages}

(***************************************************************************)
(* The program: main() run any number of times over the same out/locations *)
(* directory.                                                              *)
(***************************************************************************)
VARIABLES
  pc,                       \* where main() is: "idle", "index", "clear", "write", "done", "exit"
  wijken_data,              \* the feed rows of this run
  parser_tables,            \* the wikitables of the reference page of this run
  municipalities,           \* main's local: the values of the returned dict, in order
  exit_message,             \* the message of SystemExit, once raised
  root_exists,              \* out/locations exists
  files,                    \* the files below out/locations: path -> text
  pending,                  \* position of the loop of lines 317-320 in municipalities
  total_files,              \* main's local
  written,                  \* history: the paths this run has written
  stale_removed,            \* history: this run's rmtree removed a file the run does not write
  prev                      \* history: <<outcome>> of the previous run when it had the same snapshot

vars ==
  << pc, wijken_data, parser_tables, municipalities, exit_message,
     root_exists, files, pending, total_files, written, stale_removed, prev >>

Init ==
  /\ pc = "idle"
  /\ wijken_data = <<>>
  /\ parser_tables = <<>>
  /\ municipalities = <<>>
  /\ exit_message = <<>>
  /\ root_exists = FALSE
  /\ files = EmptyDict
  /\ pending = 0
  /\ total_files = 0
  /\ written = {}
  /\ stale_removed = FALSE
  /\ prev = <<>>

Finished == pc \in {"done", "exit"}

\* What a finished run did: its exit, and on success the output tree it left.
Outcome ==
  [exit |-> pc = "exit", message |-> exit_message,
   tree |-> IF pc = "exit" THEN EmptyDict ELSE files]

\* Lines 302-307 for the given snapshot; `previous` is the history value to keep.
Main(snapshot, previous) ==
  /\ wijken_data' = snapshot.wijken_data
  /\ parser_tables' = snapshot.parser_tables
  /\ municipalities' = <<>>
  /\ pending' = 0
  /\ total_files' = 0
  /\ written' = {}
  /\ stale_removed' = FALSE
  /\ prev' = previous
  /\ IF snapshot.wijken_data = <<>>
     THEN /\ pc' = "exit"
          /\ exit_message' = <<"C", "B", "S", " ", "d", "a", "t", "a", "s", "e", "t", " ", "r", "e", "t", "u", "r", "n", "e", "d", " ", "n", "o", " ", "r", "o", "w", "s", ".">>
     ELSE /\ pc' = "index"
          /\ exit_message' = <<>>
  /\ UNCHANGED <<root_exists, files>>

\* The script is started on the sources as they are now.
StartRun ==
  /\ pc = "idle"
  /\ \E snapshot \in Snapshots : Main(snapshot, <<>>)

\* The script is started again while the sources still serve the same snapshot.
Rerun ==
  /\ Finished
  /\ Main(Snapshot(wijken_data, parser_tables), <<Outcome>>)

\* Lines 328-329: the process is over; only out/locations is left of the run.
ProcessExit ==
  /\ Finished
  /\ pc' = "idle"
  /\ wijken_data' = <<>>
  /\ parser_tables' = <<>>
  /\ municipalities' = <<>>
  /\ exit_message' = <<>>
  /\ pending' = 0
  /\ total_files' = 0
  /\ written' = {}
  /\ stale_removed' = FALSE
  /\ prev' = <<>>
  /\ UNCHANGED <<root_exists, files>>

\* Line 309: build_municipality_index returns the index, or raises SystemExit.
BuildIndex ==
  /\ pc = "index"
  /\ \E hashseed \in HashSeeds :
       \E built \in {build_municipality_index(wijken_data, parser_tables, hashseed)} :
         /\ municipalities' = built.result
         /\ exit_message' = built.message
         /\ pc' = IF built.exit THEN "exit" ELSE "clear"
  /\ UNCHANGED << wijken_data, parser_tables, root_exists, files, pending,
                  total_files, written, stale_removed, prev >>

\* The root is left as it is.
RmtreeSkipped(tree) == tree

\* shutil.rmtree(root)
Rmtree(tree) == EmptyDict

HasNeighbourhoods(municipality) == municipality.neighbourhoods # <<>>

\* Lines 311-316: the destination root is removed if it exists, and created.
ClearRoot ==
  /\ pc = "clear"
  /\ files' = IF root_exists THEN Rmtree(files) ELSE files
  /\ root_exists' = TRUE
  /\ total_files' = 0
  /\ pending' = 1
  /\ stale_removed' =
       \E path \in DOMAIN files :
         \A i \in DOMAIN municipalities :
           HasNeighbourhoods(municipalities[i]) => OutFile(municipalities[i]) # path
  /\ pc' = "write"
  /\ UNCHANGED << wijken_data, parser_tables, municipalities, exit_message, written, prev >>

\* The tree after write_locations(root, municipality).
write_locations(tree, municipality) ==
  IF ~HasNeighbourhoods(municipality) THEN tree
  ELSE DictSet(tree, OutFile(municipality), LocationsText(municipality))

\* total_files after lines 319-320.
CountFile(count, municipality) ==
  IF HasNeighbourhoods(municipality) THEN count + 1 ELSE count

\* One pass of the loop of lines 317-320.
WriteLocations ==
  /\ pc = "write"
  /\ pending <= Len(municipalities)
  /\ files' = write_locations(files, municipalities[pending])
  /\ total_files' = CountFile(total_files, municipalities[pending])
  /\ written' = IF HasNeighbourhoods(municipalities[pending])
                THEN written \cup {OutFile(municipalities[pending])}
                ELSE written
  /\ pending' = pending + 1
  /\ UNCHANGED << pc, wijken_data, parser_tables, municipalities, exit_message, root_exists, stale_removed, prev >>

\* Lines 322-325: the loop is over, the summary is printed, main returns.
Finish ==
  /\ pc = "write"
  /\ pending > Len(municipalities)
  /\ pc' = "done"
  /\ UNCHANGED << wijken_data, parser_tables, municipalities, exit_message, root_exists, files, pending, total_files,
                  written, stale_removed, prev >>

Next ==
  \/ StartRun
  \/ Rerun
  \/ ProcessExit
  \/ BuildIndex
  \/ ClearRoot
  \/ WriteLocations
  \/ Finish

Spec == Init /\ [][Next]_vars

(***************************************************************************)
(* Vocabulary of the properties.                                           *)
(***************************************************************************)
\* load_municipality_provinces of this run.
Loaded == load_municipality_provinces(parser_tables)

\* The mapping this run's build_municipality_index works with: the one loaded from
\* the reference page, or none when there is no run, no feed row or no usable table.
LoadedMappings ==
  IF pc = "idle" \/ wijken_data = <<>> \/ Loaded.exit THEN {} ELSE {Loaded.mapping}

\* build_municipality_index has returned its index to main.
Built == pc \in {"clear", "write", "done"}

\* build_municipality_index raised SystemExit.
BuildExited == pc = "exit" /\ wijken_data # <<>>

\* The names of the region-level records of the feed.
MunicipalityNames ==
  LET muni_names == MuniNames(wijken_data, Len(wijken_data))
  IN {muni_names[code] : code \in DOMAIN muni_names}

\* The name matches nothing: neither it nor a normalized variant of it is a name
\* of the reference mapping or of the override table.
Unmatched(mapping, name) ==
  \A candidate \in {name} \cup FallbackVariants(name) :
    /\ candidate \notin DOMAIN mapping
    /\ candidate \notin DOMAIN MUNICIPALITY_OVERRIDES

UnmatchedNames(mapping) == {name \in MunicipalityNames : Unmatched(mapping, name)}

\* The reference page has a row that gives `name` the raw province label `label`.
ReferenceRowFor(name, label) ==
  \E t \in DOMAIN parser_tables : \E r \in DOMAIN parser_tables[t] :
    LET row == parser_tables[t][r]
    IN Len(row) >= 2 /\ row[Len(row) - 1] = name /\ row[Len(row)] = label

Range(f) == {f[x] : x \in DOMAIN f}

\* Once build_municipality_index is over, a run whose feed holds an unmatched name
\* has raised SystemExit, the message holds the name, and the loop of main never began.
AbortsWithName ==
  \A mapping \in LoadedMappings :
    \A name \in UnmatchedNames(mapping) :
      pc # "index" =>
        /\ pc = "exit"
        /\ Contains(exit_message, name)
        /\ written = {}
        /\ pending = 0

(***************************************************************************)
(* C1. Fatal abort: when a region-level record of the feed has a name that *)
(* matches neither the reference mapping, nor through a normalized         *)
(* variant, nor the override table, the run ends in SystemExit with a      *)
(* message that contains the name, and the run leaves the output tree as   *)
(* it found it: the exit comes before the root is cleared or created and   *)
(* before any artifact is written.                                         *)
(***************************************************************************)
C1_FatalAbort ==
  /\ []AbortsWithName
  /\ [][pc' = "exit" => UNCHANGED <<root_exists, files>>]_vars

\* An aborted run that found artifacts of an earlier run and left them in place.
C1_Witness ==
  /\ pc = "exit"
  /\ \E mapping \in LoadedMappings : <<"A", "t", "l", "a", "n", "t", "i", "s">> \in UnmatchedNames(mapping)
  /\ DOMAIN files # {}

\* In and after the loop of main the tree holds the artifacts of this run only.
OnlyThisRun ==
  pc \in {"write", "done"} => (root_exists /\ DOMAIN files = written)

(***************************************************************************)
(* C2. Destination clear ordering: in a run that reaches the loop over the *)
(* municipalities the root exists and holds exactly the artifacts this run *)
(* has written, so nothing of an earlier run is left when the run is done; *)
(* and once the loop has begun no artifact is removed again.               *)
(***************************************************************************)
C2_ClearBeforeWrite ==
  /\ []OnlyThisRun
  /\ [][pc = "write" => DOMAIN files \subseteq DOMAIN files']_vars

\* A finished run whose rmtree removed an artifact of an earlier run that this
\* run does not write, and that wrote an artifact of its own.
C2_Witness == pc = "done" /\ stale_removed /\ written # {}

(***************************************************************************)
(* C3. Idempotence: a run that follows a run on the same source snapshot   *)
(* has the same outcome: the same SystemExit message, or the same output   *)
(* tree (the same paths with the same text).                               *)
(***************************************************************************)
C3_Idempotent == (Finished /\ prev # <<>>) => Outcome = prev[1]

(***************************************************************************)
(* C4. Override precedence: the mapping load_municipality_provinces        *)
(* returns gives every name of the override table the province of the      *)
(* override table, whatever the reference table says, and a municipality   *)
(* with such a name is resolved to that province.                          *)
(***************************************************************************)
C4_OverridePrecedence ==
  \A mapping \in LoadedMappings :
    /\ \A name \in DOMAIN MUNICIPALITY_OVERRIDES :
         /\ name \in DOMAIN mapping
         /\ mapping[name] = MUNICIPALITY_OVERRIDES[name]
    /\ Built =>
         \A i \in DOMAIN municipalities :
           municipalities[i].name \in DOMAIN MUNICIPALITY_OVERRIDES =>
             municipalities[i].province = MUNICIPALITY_OVERRIDES[municipalities[i].name]

\* Appingedam is resolved to Groningen although the reference table says Drenthe.
C4_Witness ==
  /\ Built
  /\ ReferenceRowFor(<<"A", "p", "p", "i", "n", "g", "e", "d", "a", "m">>, <<"D", "r", "e", "n", "t", "h", "e">>)
  /\ \E i \in DOMAIN municipalities :
       /\ municipalities[i].name = <<"A", "p", "p", "i", "n", "g", "e", "d", "a", "m">>
       /\ municipalities[i].province = <<"G", "r", "o", "n", "i", "n", "g", "e", "n">>

(***************************************************************************)
(* C5. Child deduplication: no municipality of the index lists two         *)
(* neighbourhoods that are equal when compared without regard to case.     *)
(***************************************************************************)
C5_NoCaseDuplicates ==
  Built =>
    \A i \in DOMAIN municipalities :
      \A a, b \in DOMAIN municipalities[i].neighbourhoods :
        a # b => Casefold(municipalities[i].neighbourhoods[a])
                   # Casefold(municipalities[i].neighbourhoods[b])

\* The province names of the folder layout: those the remap and override tables
\* produce, and the Dutch names that are the same in the layout.
CanonicalProvinces ==
  Range(PROVINCE_NAME_REMAP) \cup Range(MUNICIPALITY_OVERRIDES)
    \cup { <<"D", "r", "e", "n", "t", "h", "e">>, <<"F", "l", "e", "v", "o", "l", "a", "n", "d">>, <<"G", "e", "l", "d", "e", "r", "l", "a", "n", "d">>, <<"G", "r", "o", "n", "i", "n", "g", "e", "n">>, <<"L", "i", "m", "b", "u", "r", "g">>,
           <<"O", "v", "e", "r", "i", "j", "s", "s", "e", "l">>, <<"U", "t", "r", "e", "c", "h", "t">>, <<"Z", "e", "e", "l", "a", "n", "d">> }

(***************************************************************************)
(* C6. Canonical regions: the province of every municipality of the index  *)
(* is non-empty and is one of the canonical province names, and so is the  *)
(* province directory of every artifact.                                   *)
(***************************************************************************)
C6_CanonicalRegions ==
  /\ Built =>
       \A i \in DOMAIN municipalities :
         /\ municipalities[i].province # <<>>
         /\ municipalities[i].province \in CanonicalProvinces
  /\ \A path \in DOMAIN files : path[1] \in {slugify(p) : p \in CanonicalProvinces}

(***************************************************************************)
(* C7. Complete diagnostic: when reconciliation aborts, the message lists  *)
(* every unresolved region-level name, sorted, each distinct name once.    *)
(***************************************************************************)
C7_CompleteDiagnostic ==
  \A mapping \in LoadedMappings :
    BuildExited =>
      exit_message =
        <<"M", "i", "s", "s", "i", "n", "g", " ", "p", "r", "o", "v", "i", "n", "c", "e", " ", "m", "a", "p", "p", "i", "n", "g", " ", "f", "o", "r", ":", " ">>
          \o Join(<<",", " ">>, AscendingSeq(UnmatchedNames(mapping)))

\* The three variants in the order the set literal writes them.
ListedVariants(name) ==
  << Replace(name, <<" ", "(", "'", "s", "-", "G", "r", "a", "v", "e", "n", "h", "a", "g", "e", ")">>, <<>>),
     Replace(name, <<"G", "e", "m", "e", "e", "n", "t", "e", " ">>, <<>>),
     Replace(name, <<"-">>, <<" ">>) >>

\* The province of the exact name, else of the first listed variant that is a key.
FirstListedProvince(mapping, name) ==
  IF name \in DOMAIN mapping THEN mapping[name]
  ELSE LET hits == SelectSeq(ListedVariants(name), LAMBDA var : var \in DOMAIN mapping)
       IN IF hits = <<>> THEN <<>> ELSE mapping[hits[1]]

(***************************************************************************)
(* C8. Resolution order: a municipality whose name is a key of the mapping *)
(* gets the province of that key; otherwise it gets the province of the    *)
(* first of the three variants, in the order parenthetical suffix          *)
(* stripped, generic prefix stripped, hyphens replaced, that is a key.     *)
(***************************************************************************)
C8_ResolutionOrder ==
  \A mapping \in LoadedMappings :
    Built =>
      \A i \in DOMAIN municipalities :
        municipalities[i].province = FirstListedProvince(mapping, municipalities[i].name)

(***************************************************************************)
(* C9. One artifact per entity: after a successful run every municipality  *)
(* with a neighbourhood has its own artifact holding exactly its entries,  *)
(* the tree holds no other artifact, and it holds as many artifacts as     *)
(* main counted: one for each municipality with a neighbourhood.           *)
(***************************************************************************)
C9_OneArtifactPerEntity ==
  pc = "done" =>
    /\ \A i \in DOMAIN municipalities :
         HasNeighbourhoods(municipalities[i]) =>
           /\ OutFile(municipalities[i]) \in DOMAIN files
           /\ files[OutFile(municipalities[i])] = LocationsText(municipalities[i])
    /\ DOMAIN files =
         {OutFile(municipalities[i]) :
            i \in {k \in DOMAIN municipalities : HasNeighbourhoods(municipalities[k])}}
    /\ Cardinality(DOMAIN files) = total_files
    /\ total_files =
         Cardinality({i \in DOMAIN municipalities : HasNeighbourhoods(municipalities[i])})

IsLeafItem(item) == StartsWith(Strip(item.Key), <<"B", "U">>)

\* The i-th feed row is one the claim calls skipped.
SkippedRow(i) ==
  \/ Strip(wijken_data[i].Title) = <<>>
  \/ /\ IsLeafItem(wijken_data[i])
     /\ \/ Strip(wijken_data[i].Municipality) = <<>>
        \/ Strip(wijken_data[i].Municipality)
             \notin DOMAIN MuniNames(wijken_data, Len(wijken_data))

\* What build_municipality_index did in this run.
BuildOutcome ==
  [exit |-> pc = "exit", message |-> exit_message, result |-> municipalities]

(***************************************************************************)
(* C10. Skipped rows: a feed row with an empty title, and a leaf-level row *)
(* whose parent reference is empty or names no region-level record, is     *)
(* skipped: build_municipality_index ends as it would without the row.     *)
(***************************************************************************)
C10_SkippedRows ==
  (Built \/ BuildExited) =>
    \A i \in DOMAIN wijken_data :
      SkippedRow(i) =>
        \E hashseed \in HashSeeds :
          build_municipality_index(RemoveAt(wijken_data, i), parser_tables, hashseed)
            = BuildOutcome

=============================================================================
